---- MODULE Spec2Model ----
(***************************************************************************)
(* Model of the AI thumbnail tool: the five Genkit flows (optimize,         *)
(* generate, edit, batch, fusion), the five server actions that wrap them, *)
(* and the page that calls three of them, with the provider (ai.generate)  *)
(* and the user as the environment.                                        *)
(*                                                                         *)
(* Spec follows one invocation of a server action from its call to its     *)
(* return, SpecUI follows a browser session of the page, SpecUIFair is a   *)
(* session in which every server action call returns, SpecHandlers adds    *)
(* the page's handlers run with their required input missing, and SpecAll  *)
(* covers both kinds of caller.                                            *)
(*                                                                         *)
(* Text is a sequence of tokens: every token is a non-empty piece of the   *)
(* string, whitespace between interpolated values is a token of its own,   *)
(* the empty string is <<>>, and template-literal concatenation is \o.     *)
(* Image URLs are opaque strings; an absent optional field is Undefined.   *)
(***************************************************************************)
EXTENDS Integers, Sequences, FiniteSets, TLC

(***************************************************************************)
(* Bounds of the model.                                                    *)
(***************************************************************************)
\* longest prompts list handed to the batch flow
MaxPrompts == 2
\* longest images list handed to the fusion flow (the schema allows 2..4)
MaxFusionImages == 5
\* server action calls made by the page in one session
MaxRequests == 4
\* form interactions (typing, choosing, picking or removing files) made in
\* one session, and files picked in one file selection
MaxInteractions == 3
MaxFiles == 2

(***************************************************************************)
(* Strings.                                                                *)
(***************************************************************************)
Undefined == "<undefined>"
Whitespace == {" ", "\n"}

\* JavaScript truthiness of an optional string (URL)
Truthy(s) == s # Undefined /\ s # ""

\* String.prototype.trim on a token sequence
Trim(s) ==
  LET keep == {k \in 1..Len(s) : s[k] \notin Whitespace}
  IN  IF keep = {} THEN <<>>
      ELSE LET lo == CHOOSE k \in keep : \A j \in keep : k <= j
               hi == CHOOSE k \in keep : \A j \in keep : k >= j
           IN  SubSeq(s, lo, hi)

\* t occurs in s as a contiguous substring
Contains(s, t) ==
  \E k \in 0..(Len(s) - Len(t)) : SubSeq(s, k + 1, k + Len(t)) = t

(***************************************************************************)
(* Input domains: the values of the flows' TypeScript input types.         *)
(***************************************************************************)
AspectRatios == {"16:9", "9:16", "1:1"}
ConsistencyModes == {"character", "style", "theme", "none"}
FusionStyles == {"seamless", "collage", "overlay", "blend", "composite"}
CreativityLevels == {"conservative", "balanced", "creative", "experimental"}

ImageA == "data:image/png;base64,AAAA"
ImageOut == "data:image/png;base64,OUT"
\* an optional image field: absent, the empty string, or a data URI
OptionalImages == {Undefined, "", ImageA}

UserPrompts == {<<>>, <<"red car on a beach">>}
ItemPrompts == {<<"cat">>, <<"dog">>}
BasePrompt == <<"Series:">>
FusionGoal == <<"merge them">>

SeqsUpTo(S, n) == UNION {[1..k -> S] : k \in 0..n}

OptimizePromptInputs ==
  [prompt : UserPrompts, aspectRatio : AspectRatios,
   image1 : OptionalImages, image2 : OptionalImages, image3 : OptionalImages]

GenerateThumbnailFromPromptInputs ==
  [prompt : UserPrompts, aspectRatio : AspectRatios,
   image1 : OptionalImages, image2 : OptionalImages, image3 : OptionalImages]

IterativelyEditThumbnailInputs ==
  [baseImage : {"", ImageA}, prompt : UserPrompts, aspectRatio : AspectRatios]

BatchGenerateInputs ==
  [prompts : SeqsUpTo(ItemPrompts, MaxPrompts), basePrompt : {BasePrompt},
   aspectRatio : AspectRatios, styleReference : {Undefined, ImageA},
   characterReference : {Undefined, ImageA},
   consistencyMode : ConsistencyModes]

\* dominantImage is an optional number: <<>> when absent, <<n>> when given
IntelligentFusionInputs ==
  [images : SeqsUpTo({ImageA}, MaxFusionImages), fusionPrompt : {FusionGoal},
   aspectRatio : AspectRatios, fusionStyle : FusionStyles,
   dominantImage : {<<>>, <<0>>}, creativityLevel : CreativityLevels]

(***************************************************************************)
(* The provider: what one ai.generate call can do.                         *)
(***************************************************************************)
TextModel == "googleai/gemini-2.5-flash"
ImageModel == "googleai/gemini-2.5-flash-image-preview"

ErrorMessages == {"", "quota exceeded"}
Pending == [kind |-> "pending"]
Thrown(m) == [kind |-> "throw", message |-> m]

ModelText == <<"A cinematic shot of a red car">>
\* response.text is always a string; response.output may be null
TextReplies ==
  {Thrown(m) : m \in ErrorMessages} \cup
  {[kind |-> "ok", text |-> t, output |-> o] :
     t \in {<<>>, ModelText},
     o \in {[defined |-> FALSE, text |-> <<>>],
            [defined |-> TRUE, text |-> <<>>],
            [defined |-> TRUE, text |-> ModelText]}}

\* the image response: media absent, media.url empty, or an image
ImageReplies ==
  {Thrown(m) : m \in ErrorMessages} \cup
  {[kind |-> "ok", media |-> md] :
     md \in {[defined |-> FALSE, url |-> ""],
             [defined |-> TRUE, url |-> ""],
             [defined |-> TRUE, url |-> ImageOut]}}

RepliesOf(model) == IF model = TextModel THEN TextReplies ELSE ImageReplies

\* const {media} = <reply>; media?.url
MediaUrl(reply) ==
  IF reply.kind = "ok" /\ reply.media.defined THEN reply.media.url
  ELSE Undefined

\* a flow's outcome: it returns a value or throws an Error
Return(v) == [kind |-> "return", value |-> v]

\* media parts of a prompt: one per URL
MediaParts(urls) == [k \in 1..Len(urls) |-> urls[k]]

\* Array.prototype.filter(Boolean) over optional URLs
RECURSIVE FilterTruthy(_)
FilterTruthy(urls) ==
  IF urls = <<>> THEN <<>>
  ELSE (IF Truthy(Head(urls)) THEN <<Head(urls)>> ELSE <<>>)
       \o FilterTruthy(Tail(urls))

\* one provider request
Call(model, system, images, text) ==
  [model |-> model, system |-> system, images |-> images, text |-> text]

SchemaError == "Schema validation failed."

(***************************************************************************)
(* State.                                                                  *)
(***************************************************************************)
VARIABLES
  action,      \* the server action being served, "none" before the first
  input,       \* its input
  pc,          \* "idle", "await" (suspended at an await), "done"
  calls,       \* provider calls issued by this invocation, in issue order
  replies,     \* replies[k]: the provider's reply to calls[k], or Pending
  i,           \* batch flow: loop index
  thumbnails,  \* batch flow: entries collected so far
  flowOutcome, \* what the flow did: Return(v), Thrown(m), or Pending
  result       \* what the action returned, or Pending

serverVars ==
  <<action, input, pc, calls, replies, i, thumbnails, flowOutcome, result>>

\* the page: its React state, the handlers suspended at an await, the
\* toast last shown, the clock, and counters of what the session has done
VARIABLES
  uploadedImages, prompt, optimizedPrompt, aspectRatio, generatedThumbnail,
  editPrompt, isOptimizing, isLoading, isEditing, generationHistory,
  selectedStyleReference, consistencyMode,
  requests,    \* handlers suspended at `await <server action>(...)`
  reads,       \* handleImageChange runs suspended at `await Promise.all`
  toast,       \* the toast shown by the last event, NoToast if none
  clock,       \* Date.now()
  invoked,     \* server action calls made by the page so far
  interactions, \* form interactions made so far
  optimizedWith \* history: the ratio sent with the optimize call that
               \* produced the optimized prompt, Undefined before the first

pageVars ==
  <<uploadedImages, prompt, optimizedPrompt, aspectRatio, generatedThumbnail,
    editPrompt, isOptimizing, isLoading, isEditing, generationHistory,
    selectedStyleReference, consistencyMode, requests, reads, toast, clock,
    invoked, interactions, optimizedWith>>

vars == <<serverVars, pageVars>>

NoToast == [title |-> "", description |-> ""]

\* the page as first rendered
PageInit ==
  /\ uploadedImages = <<>>
  /\ prompt = <<>>
  /\ optimizedPrompt = <<>>
  /\ aspectRatio = "1:1"
  /\ generatedThumbnail = Undefined
  /\ editPrompt = <<>>
  /\ isOptimizing = FALSE
  /\ isLoading = FALSE
  /\ isEditing = FALSE
  /\ generationHistory = <<>>
  /\ selectedStyleReference = ""
  /\ consistencyMode = "none"
  /\ requests = {}
  /\ reads = <<>>
  /\ toast = NoToast
  /\ clock = 0
  /\ invoked = 0
  /\ interactions = 0
  /\ optimizedWith = Undefined

\* calls in flight
inFlight == {k \in 1..Len(replies) : replies[k] = Pending}

ServerInit ==
  /\ action = "none"
  /\ input = [none |-> TRUE]
  /\ pc = "idle"
  /\ calls = <<>>
  /\ replies = <<>>
  /\ i = 0
  /\ thumbnails = <<>>
  /\ flowOutcome = Pending
  /\ result = Pending

Init == ServerInit /\ PageInit

\* one direct invocation of a server action is followed from its call to its
\* return; it is not interleaved with a session of the page
CanInvoke == pc = "idle" /\ PageInit

\* entering an action: fresh locals
Enter(a, in) ==
  /\ action' = a
  /\ input' = in
  /\ i' = 0
  /\ thumbnails' = <<>>
  /\ UNCHANGED pageVars

\* issuing `await ai.generate(...)`: the handler suspends until the reply
Issue(c) ==
  /\ calls' = Append(calls, c)
  /\ replies' = Append(replies, Pending)
  /\ pc' = "await"

\* the awaited call has settled
Settled(k) == k \in 1..Len(replies) /\ replies[k] # Pending

(***************************************************************************)
(* The provider answers one call in flight.                                *)
(***************************************************************************)
ProviderReply ==
  /\ pc = "await"
  /\ \E k \in inFlight : \E r \in RepliesOf(calls[k].model) :
       replies' = [replies EXCEPT ![k] = r]
  /\ UNCHANGED <<action, input, pc, calls, i, thumbnails, flowOutcome, result>>
  /\ UNCHANGED pageVars

(***************************************************************************)
(* The action boundary: try { return {success: true, ...} } catch ...      *)
(***************************************************************************)
\* variant: the catch block drops the message
ActionFailureNoMessage(outcome) == [success |-> FALSE]

ActionFailure(outcome) == [success |-> FALSE, error |-> outcome.message]


\* the action is over: the flow's outcome and the value handed to the caller
Finish(outcome, res) ==
  /\ pc' = "done"
  /\ flowOutcome' = outcome
  /\ result' = res

\* the first provider call of an invocation
IssueFirst(c) ==
  /\ calls' = <<c>>
  /\ replies' = <<Pending>>
  /\ pc' = "await"
  /\ flowOutcome' = Pending
  /\ result' = Pending

\* an invocation that ends before any provider call
FinishWithoutCall(outcome, res) ==
  /\ calls' = <<>>
  /\ replies' = <<>>
  /\ Finish(outcome, res)

(***************************************************************************)
(* Wording shared by the system instructions.                              *)
(***************************************************************************)
NoCropWording ==
  "Do NOT crop or cut any text or subjects; instead, scale and reposition elements"
BatchNoCropWording ==
  "Do NOT crop or cut any content; instead, scale and reposition elements to fit the vertical format."
SafeMargins ==
  <<" ", "so that all content remains fully inside the", " ", "9:16", " ",
    "frame with comfortable safe margins.">>
CropToFit ==
  ". Do not add any padding or black bars. Crop the image to fit the requested aspect ratio if necessary."

(***************************************************************************)
(* Prompt optimizer.                                                       *)
(***************************************************************************)
OptimizePromptInputSchema(in) ==
  /\ in.aspectRatio \in AspectRatios
  /\ \A u \in {in.image1, in.image2, in.image3} : u = Undefined \/ u \in STRING

\* imageParts: the supplied reference images, empty strings filtered out
OptimizeImageParts(in) ==
  MediaParts(FilterTruthy(<<in.image1, in.image2, in.image3>>))

AssetContext(providedImagesCount) ==
  IF providedImagesCount # 0
  THEN <<"The user also provided", " ", ToString(providedImagesCount), " ",
         "reference image">>
       \o (IF providedImagesCount > 1 THEN <<"s">> ELSE <<>>)
       \o <<". Consider them when composing the scene.">>
  ELSE <<"No reference images were provided.">>

OptimizeRatioRule(ratio) ==
  IF ratio = "9:16"
  THEN <<"The final image MUST have an aspect ratio of exactly", " ", "9:16",
         " ", "(vertical). Do not add any padding or black bars.", " ",
         NoCropWording>> \o SafeMargins
  ELSE <<"The final image MUST have an aspect ratio of exactly", " ",
         ratio, CropToFit>>

OptimizeSystem(in) ==
  <<"You are an expert prompt engineer for a text-to-image model.", "\n",
    "1.  **Incorporate Aspect Ratio**:", " ">>
  \o OptimizeRatioRule(in.aspectRatio)
  \o <<"\n", "2.  **Describe Composition**", "\n", "3.  **Specify Style**",
       "\n", "4.  **Enhance Details**", "\n",
       "5.  **Incorporate User Images**", "\n",
       "6.  **Keep it a single paragraph. Do not use lists or bullet points.**",
       "\n",
       "7.  **Output only the prompt itself, with no extra text or explanation.**">>

OptimizeCall(in) ==
  Call(TextModel, OptimizeSystem(in), OptimizeImageParts(in),
       <<"User prompt:", " ", "\"">> \o in.prompt
       \o <<"\"", "\n", "Aspect ratio:", " ", in.aspectRatio, "\n">>
       \o AssetContext(Len(OptimizeImageParts(in))))

FallbackHead ==
  <<"Create an eye-catching thumbnail. Aspect ratio:", " ">>
FallbackBody ==
  <<". Crop to fit with no padding or black bars. Emphasize strong composition (rule of thirds, leading lines), clear subject separation, and dramatic lighting. Reflect the following intent:",
    " ">>
FallbackImages ==
  <<"Incorporate the provided reference images appropriately.">>

\* variant: the catch block's template leaves the user's intent out
FallbackOnThrowNoIntent(in, providedImagesCount) ==
  Trim(FallbackHead \o <<in.aspectRatio>> \o FallbackBody \o <<".", " ">>
       \o (IF providedImagesCount # 0 THEN FallbackImages ELSE <<>>))

\* the fallback built in the catch block
FallbackOnThrow(in, providedImagesCount) ==
  Trim(FallbackHead \o <<in.aspectRatio>> \o FallbackBody \o in.prompt
       \o <<".", " ">>
       \o (IF providedImagesCount # 0 THEN FallbackImages ELSE <<>>))

\* variant: the template of the empty-response path leaves the ratio out
FallbackOnEmptyNoRatio(in, providedImagesCount) ==
  Trim(<<"Create an eye-catching thumbnail.">> \o FallbackBody \o in.prompt
       \o <<".", " ">>
       \o (IF providedImagesCount # 0 THEN FallbackImages ELSE <<>>))

\* the fallback built when the response carries no text
FallbackOnEmpty(in, providedImagesCount) ==
  Trim(FallbackHead \o <<in.aspectRatio>> \o FallbackBody \o in.prompt
       \o <<".", " ">>
       \o (IF providedImagesCount # 0 THEN FallbackImages ELSE <<>>))

\* response.text || response.output?.text; <<>> stands for every falsy value
FinalText(reply) ==
  IF reply.text # <<>> THEN reply.text
  ELSE IF reply.output.defined THEN reply.output.text ELSE <<>>

\* variant: an empty response is an error, as in the other flows
optimizePromptFlowThrowOnEmpty(in, reply) ==
  IF reply.kind = "throw"
  THEN Return([optimizedPrompt |->
                 FallbackOnThrow(in, Len(OptimizeImageParts(in)))])
  ELSE IF FinalText(reply) = <<>>
  THEN Thrown("Prompt optimization returned no text.")
  ELSE Return([optimizedPrompt |-> FinalText(reply)])

\* the handler from the settled provider call to its return
optimizePromptFlow(in, reply) ==
  LET providedImagesCount == Len(OptimizeImageParts(in))
  IN  IF reply.kind = "throw"
      THEN Return([optimizedPrompt |-> FallbackOnThrow(in, providedImagesCount)])
      ELSE IF FinalText(reply) = <<>>
      THEN Return([optimizedPrompt |-> FallbackOnEmpty(in, providedImagesCount)])
      ELSE Return([optimizedPrompt |-> FinalText(reply)])

optimizePromptAction(outcome) ==
  IF outcome.kind = "return"
  THEN [success |-> TRUE, optimizedPrompt |-> outcome.value.optimizedPrompt]
  ELSE ActionFailure(outcome)

OptimizeStart ==
  /\ CanInvoke
  /\ \E in \in OptimizePromptInputs :
       /\ Enter("optimizePromptAction", in)
       /\ IF OptimizePromptInputSchema(in)
          THEN IssueFirst(OptimizeCall(in))
          ELSE FinishWithoutCall(Thrown(SchemaError),
                                 optimizePromptAction(Thrown(SchemaError)))

OptimizeResume ==
  /\ action = "optimizePromptAction"
  /\ pc = "await"
  /\ Settled(Len(calls))
  /\ LET outcome == optimizePromptFlow(input, replies[Len(calls)])
     IN  Finish(outcome, optimizePromptAction(outcome))
  /\ UNCHANGED <<action, input, calls, replies, i, thumbnails>>
  /\ UNCHANGED pageVars

(***************************************************************************)
(* Thumbnail generator.                                                    *)
(***************************************************************************)
GenerateThumbnailFromPromptInputSchema(in) ==
  /\ in.aspectRatio \in AspectRatios
  /\ \A u \in {in.image1, in.image2, in.image3} : u = Undefined \/ u \in STRING

\* mediaParts: image1..image3, each pushed only when truthy
GenerateMediaParts(in) ==
  (IF Truthy(in.image1) THEN <<in.image1>> ELSE <<>>)
  \o (IF Truthy(in.image2) THEN <<in.image2>> ELSE <<>>)
  \o (IF Truthy(in.image3) THEN <<in.image3>> ELSE <<>>)

\* variant: the instruction does not branch on the vertical ratio
GenerateSystemNoVerticalBranch(in) ==
  <<"You are an expert image generator.", "\n",
    "You MUST generate an image with an aspect ratio of EXACTLY", " ",
    in.aspectRatio, CropToFit, "\n">>

GenerateSystem(in) ==
  <<"You are an expert image generator.", "\n">>
  \o (IF in.aspectRatio = "9:16"
      THEN <<"You MUST generate an image with an aspect ratio of EXACTLY",
             " ", "9:16", " ",
             "(vertical). Do not add any padding or black bars.", " ",
             NoCropWording>> \o SafeMargins
      ELSE <<"You MUST generate an image with an aspect ratio of EXACTLY",
             " ", in.aspectRatio, CropToFit>>)
  \o <<"\n">>

GenerateCall(in) ==
  Call(ImageModel, GenerateSystem(in), GenerateMediaParts(in),
       <<"User prompt:", " ">> \o in.prompt)

\* variant: the media check is missing
generateThumbnailFromPromptFlowUnchecked(in, reply) ==
  IF reply.kind = "throw" THEN reply
  ELSE Return([thumbnail |->
                 IF reply.media.defined THEN reply.media.url ELSE ""])

\* the handler from the settled provider call to its return
generateThumbnailFromPromptFlow(in, reply) ==
  IF reply.kind = "throw" THEN reply
  ELSE IF ~Truthy(MediaUrl(reply))
  THEN Thrown("Image generation did not return an image.")
  ELSE Return([thumbnail |-> MediaUrl(reply)])

generateThumbnailAction(outcome) ==
  IF outcome.kind = "return"
  THEN [success |-> TRUE, thumbnail |-> outcome.value.thumbnail]
  ELSE ActionFailure(outcome)

GenerateStart ==
  /\ CanInvoke
  /\ \E in \in GenerateThumbnailFromPromptInputs :
       /\ Enter("generateThumbnailAction", in)
       /\ IF GenerateThumbnailFromPromptInputSchema(in)
          THEN IssueFirst(GenerateCall(in))
          ELSE FinishWithoutCall(Thrown(SchemaError),
                                 generateThumbnailAction(Thrown(SchemaError)))

\* variant: a thrown provider call is issued again
GenerateResumeRetryOnThrow ==
  /\ action = "generateThumbnailAction"
  /\ pc = "await"
  /\ Settled(Len(calls))
  /\ IF replies[Len(calls)].kind = "throw"
     THEN /\ Issue(GenerateCall(input))
          /\ UNCHANGED <<flowOutcome, result>>
     ELSE LET outcome ==
                generateThumbnailFromPromptFlow(input, replies[Len(calls)])
          IN  /\ Finish(outcome, generateThumbnailAction(outcome))
              /\ UNCHANGED <<calls, replies>>
  /\ UNCHANGED <<action, input, i, thumbnails>>
  /\ UNCHANGED pageVars

GenerateResume ==
  /\ action = "generateThumbnailAction"
  /\ pc = "await"
  /\ Settled(Len(calls))
  /\ LET outcome == generateThumbnailFromPromptFlow(input, replies[Len(calls)])
     IN  Finish(outcome, generateThumbnailAction(outcome))
  /\ UNCHANGED <<action, input, calls, replies, i, thumbnails>>
  /\ UNCHANGED pageVars

(***************************************************************************)
(* Iterative editor.                                                       *)
(***************************************************************************)
IterativelyEditThumbnailInputSchema(in) ==
  /\ in.baseImage \in STRING
  /\ in.aspectRatio \in AspectRatios

EditSystem(in) ==
  <<"You are an expert image editor.", "\n">>
  \o (IF in.aspectRatio = "9:16"
      THEN <<"You MUST edit the image to have an aspect ratio of EXACTLY",
             " ", "9:16", " ",
             "(vertical). Do not add any padding or black bars.", " ",
             NoCropWording>> \o SafeMargins
      ELSE <<"You MUST edit the image to have an aspect ratio of EXACTLY",
             " ", in.aspectRatio, CropToFit>>)
  \o <<"\n">>

EditCall(in) ==
  Call(ImageModel, EditSystem(in), <<in.baseImage>>,
       <<"User edit prompt:", " ">> \o in.prompt)

\* the handler from the settled provider call to its return
iterativelyEditThumbnailFlow(in, reply) ==
  IF reply.kind = "throw" THEN reply
  ELSE IF MediaUrl(reply) = Undefined \/ ~Truthy(MediaUrl(reply))
  THEN Thrown("Failed to generate or edit thumbnail.")
  ELSE Return([editedThumbnail |-> MediaUrl(reply)])

editThumbnailAction(outcome) ==
  IF outcome.kind = "return"
  THEN [success |-> TRUE, thumbnail |-> outcome.value.editedThumbnail]
  ELSE ActionFailure(outcome)

EditStart ==
  /\ CanInvoke
  /\ \E in \in IterativelyEditThumbnailInputs :
       /\ Enter("editThumbnailAction", in)
       /\ IF IterativelyEditThumbnailInputSchema(in)
          THEN IssueFirst(EditCall(in))
          ELSE FinishWithoutCall(Thrown(SchemaError),
                                 editThumbnailAction(Thrown(SchemaError)))

EditResume ==
  /\ action = "editThumbnailAction"
  /\ pc = "await"
  /\ Settled(Len(calls))
  /\ LET outcome == iterativelyEditThumbnailFlow(input, replies[Len(calls)])
     IN  Finish(outcome, editThumbnailAction(outcome))
  /\ UNCHANGED <<action, input, calls, replies, i, thumbnails>>
  /\ UNCHANGED pageVars

(***************************************************************************)
(* Batch generator.                                                        *)
(***************************************************************************)
BatchGenerateInputSchema(in) ==
  /\ in.aspectRatio \in AspectRatios
  /\ in.consistencyMode \in ConsistencyModes
  /\ \A u \in {in.styleReference, in.characterReference} :
       u = Undefined \/ u \in STRING

\* a JavaScript number n / d
Divide(n, d) == [num |-> n, den |-> d]
IsNaN(x) == x.num = 0 /\ x.den = 0

\* z.number() rejects NaN
BatchGenerateOutputSchema(out) == ~IsNaN(out.consistency_score)

ConsistencyInstruction(in) ==
  IF in.consistencyMode = "character" /\ Truthy(in.characterReference)
  THEN <<" ", "CRITICAL: Maintain exact character consistency - same facial features, hair, clothing style, and character design as shown in the reference image. The character should be immediately recognizable across all variations.">>
  ELSE IF in.consistencyMode = "style" /\ Truthy(in.styleReference)
  THEN <<" ", "CRITICAL: Apply the exact artistic style, color palette, lighting technique, brushwork, and visual treatment from the reference image to create a cohesive series.">>
  ELSE IF in.consistencyMode = "theme"
  THEN <<" ", "CRITICAL: Maintain thematic consistency - same mood, color scheme, composition style, and visual hierarchy across all thumbnails in this series.">>
  ELSE <<>>

ReferenceImages(in) ==
  IF in.consistencyMode = "character" /\ Truthy(in.characterReference)
  THEN <<in.characterReference>>
  ELSE IF in.consistencyMode = "style" /\ Truthy(in.styleReference)
  THEN <<in.styleReference>>
  ELSE <<>>

EnhancedPrompt(in, itemPrompt) ==
  in.basePrompt \o <<" ">> \o itemPrompt \o ConsistencyInstruction(in)
  \o <<" ", "\n", "TECHNICAL REQUIREMENTS:", "\n", "- Aspect ratio: exactly",
       " ", in.aspectRatio, "\n",
       "- Professional thumbnail quality with high visual impact", "\n",
       "- Clear focal point and readable text elements", "\n",
       "- Consistent branding and style throughout the series", "\n",
       "- Optimized for", " ",
       IF in.aspectRatio = "16:9" THEN "YouTube thumbnails"
       ELSE IF in.aspectRatio = "9:16" THEN "vertical social media"
       ELSE "square social posts">>

BatchSystem(in) ==
  <<"You are an expert thumbnail designer specializing in creating consistent, high-impact visual series.",
    "\n">>
  \o (IF in.aspectRatio = "9:16"
      THEN <<"Generate vertical", " ", "9:16", " ",
             "thumbnails. Keep all text and visual elements fully inside the frame with comfortable safe margins.",
             " ",
             BatchNoCropWording>>
      ELSE <<"Generate thumbnails with exact aspect ratio", " ",
             in.aspectRatio,
             ". Ensure all elements fit properly within the frame.">>)
  \o <<"\n", "Focus on:", "\n", "- Visual consistency", " ">>
  \o (IF in.consistencyMode # "none"
      THEN <<"(", in.consistencyMode, " ", "consistency is CRITICAL)">>
      ELSE <<>>)
  \o <<"\n", "- High contrast and readability", "\n",
       "- Professional design quality", "\n",
       "- Thumbnail-optimized composition", "\n", "- Clear visual hierarchy">>

\* the call of loop iteration k (0-based), for prompts[k]
BatchCall(in, k) ==
  Call(ImageModel, BatchSystem(in), ReferenceImages(in),
       EnhancedPrompt(in, in.prompts[k + 1]))

\* variant: the entry records its position in the output, not in the batch
BatchCollectOutputPosition(in, k, reply, collected) ==
  IF reply.kind # "throw" /\ Truthy(MediaUrl(reply))
  THEN Append(collected,
              [image |-> MediaUrl(reply), prompt |-> in.prompts[k + 1],
               index |-> Len(collected)])
  ELSE collected

\* the body of the try block after the await, and the catch block
BatchCollect(in, k, reply, collected) ==
  IF reply.kind # "throw" /\ Truthy(MediaUrl(reply))
  THEN Append(collected,
              [image |-> MediaUrl(reply), prompt |-> in.prompts[k + 1],
               index |-> k])
  ELSE collected

\* the return statement, then the flow's output validation
batchGenerateFlow(in, collected) ==
  LET out == [thumbnails |-> collected,
              consistency_score |-> Divide(Len(collected), Len(in.prompts))]
  IN  IF BatchGenerateOutputSchema(out) THEN Return(out)
      ELSE Thrown(SchemaError)

batchGenerateAction(outcome) ==
  IF outcome.kind = "return"
  THEN [success |-> TRUE, thumbnails |-> outcome.value.thumbnails,
        consistency_score |-> outcome.value.consistency_score]
  ELSE ActionFailure(outcome)

BatchStart ==
  /\ CanInvoke
  /\ \E in \in BatchGenerateInputs :
       /\ Enter("batchGenerateAction", in)
       /\ IF ~BatchGenerateInputSchema(in)
          THEN FinishWithoutCall(Thrown(SchemaError),
                                 batchGenerateAction(Thrown(SchemaError)))
          ELSE IF 0 < Len(in.prompts)
          THEN IssueFirst(BatchCall(in, 0))
          ELSE LET outcome == batchGenerateFlow(in, <<>>)
               IN  FinishWithoutCall(outcome, batchGenerateAction(outcome))

\* one turn of the loop: the reply to item i is handled, then either the
\* call of item i + 1 is issued or the flow returns
BatchTurn ==
  /\ LET collected == BatchCollect(input, i, replies[i + 1], thumbnails)
     IN  /\ thumbnails' = collected
         /\ i' = i + 1
         /\ IF i + 1 < Len(input.prompts)
            THEN /\ Issue(BatchCall(input, i + 1))
                 /\ UNCHANGED <<flowOutcome, result>>
            ELSE /\ LET outcome == batchGenerateFlow(input, collected)
                    IN  Finish(outcome, batchGenerateAction(outcome))
                 /\ UNCHANGED <<calls, replies>>
  /\ UNCHANGED <<action, input>>
  /\ UNCHANGED pageVars

\* variant: no try/catch around the call, a throwing item ends the flow
BatchResumeAbortOnThrow ==
  /\ action = "batchGenerateAction"
  /\ pc = "await"
  /\ Settled(i + 1)
  /\ IF replies[i + 1].kind = "throw"
     THEN /\ Finish(replies[i + 1], batchGenerateAction(replies[i + 1]))
          /\ UNCHANGED <<action, input, calls, replies, i, thumbnails>>
          /\ UNCHANGED pageVars
     ELSE BatchTurn

\* variant: the call is not awaited, the loop goes on with the promise
BatchResumeNoAwait ==
  /\ action = "batchGenerateAction"
  /\ pc = "await"
  /\ i + 1 <= Len(replies)
  /\ BatchTurn

\* the loop resumes when the awaited call of item i has settled
BatchResume ==
  /\ action = "batchGenerateAction"
  /\ pc = "await"
  /\ Settled(i + 1)
  /\ BatchTurn

(***************************************************************************)
(* Intelligent fusion.                                                     *)
(***************************************************************************)
MinFusionImages == 2
MaxSchemaFusionImages == 4

\* variant: the upper limit is missing
IntelligentFusionInputSchemaNoMax(in) ==
  /\ Len(in.images) >= MinFusionImages
  /\ in.aspectRatio \in AspectRatios

IntelligentFusionInputSchema(in) ==
  /\ Len(in.images) >= MinFusionImages
  /\ Len(in.images) <= MaxSchemaFusionImages
  /\ in.aspectRatio \in AspectRatios
  /\ in.fusionStyle \in FusionStyles
  /\ in.creativityLevel \in CreativityLevels

AnalysisPrompt(in) ==
  <<"Analyze these", " ", ToString(Len(in.images)), " ",
    "images and describe:", "\n",
    "4. How they could be best combined for a", " ", in.fusionStyle, " ",
    "fusion", "\n", "Target fusion goal:", " ">>
  \o in.fusionPrompt
  \o <<"\n", "Creativity level:", " ", in.creativityLevel>>

AnalysisSystem ==
  <<"You are an expert visual analyst specializing in image composition and fusion techniques. Provide detailed, technical analysis for optimal image combination.">>

AnalysisCall(in) ==
  Call(TextModel, AnalysisSystem, MediaParts(in.images), AnalysisPrompt(in))

FusionInstructions(fusionStyle) ==
  CASE fusionStyle = "seamless" ->
         "Create a seamless blend where all images flow naturally together with smooth transitions and unified lighting."
    [] fusionStyle = "collage" ->
         "Arrange the images in an artistic collage layout with clear boundaries but harmonious composition."
    [] fusionStyle = "overlay" ->
         "Layer the images with creative overlays, transparency effects, and depth to create visual interest."
    [] fusionStyle = "blend" ->
         "Blend the images together using advanced mixing techniques, creating new visual relationships between elements."
    [] fusionStyle = "composite" ->
         "Create a professional composite combining the best elements from each image into a cohesive new design."

CreativityInstructions(creativityLevel) ==
  CASE creativityLevel = "conservative" ->
         "Maintain the original character of each image while combining them respectfully."
    [] creativityLevel = "balanced" ->
         "Balance preservation of original elements with creative new combinations."
    [] creativityLevel = "creative" ->
         "Take creative liberties to produce something new and visually striking."
    [] creativityLevel = "experimental" ->
         "Push creative boundaries and experiment with unexpected combinations and effects."

DominantInstruction(in) ==
  IF in.dominantImage # <<>>
  THEN <<" ", "Use image", " ", ToString(in.dominantImage[1] + 1), " ",
         "as the dominant base composition.">>
  ELSE <<>>

\* the prompt of the image call, built around the analysis text
FusionPrompt(in, analysisText) ==
  in.fusionPrompt
  \o <<"\n", "FUSION SPECIFICATIONS:", "\n", "- Style:", " ",
       FusionInstructions(in.fusionStyle), "\n", "- Creativity:", " ",
       CreativityInstructions(in.creativityLevel), "\n",
       "- Aspect ratio: exactly", " ", in.aspectRatio>>
  \o DominantInstruction(in)
  \o <<"\n", "- Ensure all elements work together harmoniously", "\n",
       "- Maintain high visual quality and professional finish", "\n",
       "ANALYSIS CONTEXT:", " ">>
  \o analysisText

FusionSystem(in) ==
  <<"You are a master digital artist specializing in intelligent image fusion.",
    "\n">>
  \o (IF in.aspectRatio = "9:16"
      THEN <<"Create a vertical", " ", "9:16", " ",
             "composition. Ensure all fused elements fit perfectly within the vertical frame with proper spacing and composition.">>
      ELSE <<"Create a composition with exact aspect ratio", " ",
             in.aspectRatio,
             ". Optimize the layout for this specific format.">>)
  \o <<"\n", "Your expertise includes:", "\n",
       "- Technical precision in fusion">>

\* analysisResponse.text of a settled analysis reply
AnalysisText(reply) == IF reply.kind = "ok" THEN reply.text ELSE <<>>

\* variant: the analysis is not passed on to the image call
FusionImageCallNoAnalysis(in, analysisReply) ==
  Call(ImageModel, FusionSystem(in), MediaParts(in.images),
       FusionPrompt(in, <<>>))

FusionImageCall(in, analysisReply) ==
  Call(ImageModel, FusionSystem(in), MediaParts(in.images),
       FusionPrompt(in, AnalysisText(analysisReply)))

\* variant: the image call's reply is returned without the media check
intelligentFusionFlowUnchecked(in, reply) ==
  IF reply.kind = "throw" THEN reply
  ELSE Return(
    [fusedImage |-> MediaUrl(reply),
     fusionDescription |-> <<>>,
     technicalDetails |-> [fusionTechnique |-> in.fusionStyle]])

\* the handler from the settled image call to its return
intelligentFusionFlow(in, reply) ==
  IF reply.kind = "throw" THEN reply
  ELSE IF ~Truthy(MediaUrl(reply))
  THEN Thrown("Intelligent fusion failed to generate image.")
  ELSE Return(
    [fusedImage |-> MediaUrl(reply),
     fusionDescription |->
       <<"Successfully fused", " ", ToString(Len(in.images)), " ",
         "images using", " ", in.fusionStyle, " ", "technique with", " ",
         in.creativityLevel, " ", "creativity level.">>,
     technicalDetails |->
       [primaryElements |->
          [k \in 1..Len(in.images) |->
             <<"Elements from image", " ", ToString(k)>>],
        fusionTechnique |-> in.fusionStyle,
        aspectRatioHandling |->
          <<"Optimized for", " ", in.aspectRatio, " ", "format">>]])

intelligentFusionAction(outcome) ==
  IF outcome.kind = "return"
  THEN [success |-> TRUE, fusedImage |-> outcome.value.fusedImage,
        fusionDescription |-> outcome.value.fusionDescription,
        technicalDetails |-> outcome.value.technicalDetails]
  ELSE ActionFailure(outcome)

FusionStart ==
  /\ CanInvoke
  /\ \E in \in IntelligentFusionInputs :
       /\ Enter("intelligentFusionAction", in)
       /\ IF IntelligentFusionInputSchema(in)
          THEN IssueFirst(AnalysisCall(in))
          ELSE FinishWithoutCall(Thrown(SchemaError),
                                 intelligentFusionAction(Thrown(SchemaError)))

\* the analysis call has settled: it threw, or the image call is issued
FusionAnalysisResume ==
  /\ action = "intelligentFusionAction"
  /\ pc = "await"
  /\ Len(calls) = 1
  /\ Settled(1)
  /\ IF replies[1].kind = "throw"
     THEN /\ Finish(replies[1], intelligentFusionAction(replies[1]))
          /\ UNCHANGED <<calls, replies>>
     ELSE /\ Issue(FusionImageCall(input, replies[1]))
          /\ UNCHANGED <<flowOutcome, result>>
  /\ UNCHANGED <<action, input, i, thumbnails>>
  /\ UNCHANGED pageVars

FusionImageResume ==
  /\ action = "intelligentFusionAction"
  /\ pc = "await"
  /\ Len(calls) = 2
  /\ Settled(2)
  /\ LET outcome == intelligentFusionFlow(input, replies[2])
     IN  Finish(outcome, intelligentFusionAction(outcome))
  /\ UNCHANGED <<action, input, calls, replies, i, thumbnails>>
  /\ UNCHANGED pageVars

(***************************************************************************)
(* The page (AIPage): React state, event handlers, and what the controls   *)
(* allow.  A handler runs up to its await in one step and resumes in a     *)
(* second step when the server action returns; between the two the values  *)
(* it read from the render it was created in stay with it.                 *)
(***************************************************************************)
MAX_IMAGES == 3

\* fileToDataUri of the j-th file the file dialog offers; a selection takes
\* the first n of them
FileUri(j) == "data:image/png;base64,FILE" \o ToString(j)
TypedOptimizedPrompts == {<<>>, <<"a hand-written prompt">>}
EditPrompts == {<<>>, <<"make the text bigger">>}
UIConsistencyModes == {"character", "style", "none"}

\* no direct invocation of a server action is underway
InSession == pc = "idle"

allDisabled == isLoading \/ isEditing \/ isOptimizing

\* array[k - 1] of a JavaScript array: undefined past the end
At(array, k) == IF k <= Len(array) THEN array[k] ELSE Undefined

Toast(title, description) == [title |-> title, description |-> description]

\* result.error || 'An unexpected error occurred. Please try again.'
ErrorDescription(res) ==
  IF res.error # "" THEN res.error
  ELSE "An unexpected error occurred. Please try again."

\* a handler suspended at its server action call: the action's input, the
\* values of its closure it uses afterwards, and the provider calls the
\* action's flow has issued
Request(id, handler, in, closure, issued) ==
  [id |-> id, handler |-> handler, input |-> in, closure |-> closure,
   calls |-> issued]

\* the flow validates its input and issues its provider call
FlowCalls(schemaOk, call) == IF schemaOk THEN <<call>> ELSE <<>>

(***************************************************************************)
(* Uploading and removing reference images.                                *)
(***************************************************************************)
\* handleImageChange up to `await Promise.all(files.map(fileToDataUri))`
handleImageChange(files) ==
  LET remainingSlots == MAX_IMAGES - Len(uploadedImages)
  IN  IF Len(files) > remainingSlots
      THEN /\ toast' = Toast("Too many images",
                             "You can only upload up to 3 images in total.")
           /\ UNCHANGED reads
      ELSE /\ reads' = Append(reads, files)
           /\ toast' = NoToast

\* the file input is disabled while a request is in flight
SelectFiles ==
  /\ InSession
  /\ ~allDisabled
  /\ interactions < MaxInteractions
  /\ \E n \in 1..MaxFiles :
       handleImageChange([j \in 1..n |-> FileUri(j)])
  /\ interactions' = interactions + 1
  /\ UNCHANGED <<uploadedImages, prompt, optimizedPrompt, aspectRatio,
                 generatedThumbnail, editPrompt, isOptimizing, isLoading,
                 isEditing, generationHistory, selectedStyleReference,
                 consistencyMode, requests, clock, invoked>>
  /\ UNCHANGED optimizedWith
  /\ UNCHANGED serverVars

RemoveAt(array, k) ==
  [j \in 1..(Len(array) - 1) |-> IF j < k THEN array[j] ELSE array[j + 1]]

\* handleImageChange after the await: the files were read, or one failed
FilesRead ==
  /\ InSession
  /\ \E k \in 1..Len(reads) :
       /\ reads' = RemoveAt(reads, k)
       /\ \/ /\ uploadedImages' = uploadedImages \o reads[k]
             /\ toast' = NoToast
          \/ /\ toast' = Toast("Image Upload Failed",
                               "There was an error reading one of the files.")
             /\ UNCHANGED uploadedImages
  /\ UNCHANGED <<prompt, optimizedPrompt, aspectRatio, generatedThumbnail,
                 editPrompt, isOptimizing, isLoading, isEditing,
                 generationHistory, selectedStyleReference, consistencyMode,
                 requests, clock, invoked, interactions>>
  /\ UNCHANGED optimizedWith
  /\ UNCHANGED serverVars

\* handleRemoveImage: the remove button of an uploaded image
RemoveImage ==
  /\ InSession
  /\ interactions < MaxInteractions
  /\ interactions' = interactions + 1
  /\ \E k \in 1..Len(uploadedImages) :
       uploadedImages' = RemoveAt(uploadedImages, k)
  /\ toast' = NoToast
  /\ UNCHANGED <<prompt, optimizedPrompt, aspectRatio, generatedThumbnail,
                 editPrompt, isOptimizing, isLoading, isEditing,
                 generationHistory, selectedStyleReference, consistencyMode,
                 requests, reads, clock, invoked>>
  /\ UNCHANGED optimizedWith
  /\ UNCHANGED serverVars

(***************************************************************************)
(* Form fields.                                                            *)
(***************************************************************************)
SetPrompt ==
  /\ InSession
  /\ interactions < MaxInteractions
  /\ interactions' = interactions + 1
  /\ ~allDisabled
  /\ \E v \in UserPrompts \ {prompt} : prompt' = v
  /\ toast' = NoToast
  /\ UNCHANGED <<uploadedImages, optimizedPrompt, aspectRatio,
                 generatedThumbnail, editPrompt, isOptimizing, isLoading,
                 isEditing, generationHistory, selectedStyleReference,
                 consistencyMode, requests, reads, clock, invoked>>
  /\ UNCHANGED optimizedWith
  /\ UNCHANGED serverVars

SetAspectRatio ==
  /\ InSession
  /\ interactions < MaxInteractions
  /\ interactions' = interactions + 1
  /\ ~allDisabled
  /\ \E v \in AspectRatios \ {aspectRatio} : aspectRatio' = v
  /\ toast' = NoToast
  /\ UNCHANGED <<uploadedImages, prompt, optimizedPrompt, generatedThumbnail,
                 editPrompt, isOptimizing, isLoading, isEditing,
                 generationHistory, selectedStyleReference, consistencyMode,
                 requests, reads, clock, invoked>>
  /\ UNCHANGED optimizedWith
  /\ UNCHANGED serverVars

\* variant: the optimized-prompt textarea is rendered without an optimized
\* prompt
SetOptimizedPromptAlwaysShown ==
  /\ InSession
  /\ interactions < MaxInteractions
  /\ interactions' = interactions + 1
  /\ ~allDisabled
  /\ \E v \in TypedOptimizedPrompts \ {optimizedPrompt} : optimizedPrompt' = v
  /\ toast' = NoToast
  /\ UNCHANGED <<uploadedImages, prompt, aspectRatio, generatedThumbnail,
                 editPrompt, isOptimizing, isLoading, isEditing,
                 generationHistory, selectedStyleReference, consistencyMode,
                 requests, reads, clock, invoked>>
  /\ UNCHANGED optimizedWith
  /\ UNCHANGED serverVars

\* the optimized prompt is editable once there is one
SetOptimizedPrompt ==
  /\ InSession
  /\ interactions < MaxInteractions
  /\ interactions' = interactions + 1
  /\ optimizedPrompt # <<>>
  /\ ~allDisabled
  /\ \E v \in TypedOptimizedPrompts \ {optimizedPrompt} : optimizedPrompt' = v
  /\ toast' = NoToast
  /\ UNCHANGED <<uploadedImages, prompt, aspectRatio, generatedThumbnail,
                 editPrompt, isOptimizing, isLoading, isEditing,
                 generationHistory, selectedStyleReference, consistencyMode,
                 requests, reads, clock, invoked>>
  /\ UNCHANGED optimizedWith
  /\ UNCHANGED serverVars

\* the "Refine with AI" panel is rendered
EditPanelShown == Truthy(generatedThumbnail) /\ ~isLoading

SetEditPrompt ==
  /\ InSession
  /\ interactions < MaxInteractions
  /\ interactions' = interactions + 1
  /\ EditPanelShown
  /\ ~(isEditing \/ isLoading)
  /\ \E v \in EditPrompts \ {editPrompt} : editPrompt' = v
  /\ toast' = NoToast
  /\ UNCHANGED <<uploadedImages, prompt, optimizedPrompt, aspectRatio,
                 generatedThumbnail, isOptimizing, isLoading, isEditing,
                 generationHistory, selectedStyleReference, consistencyMode,
                 requests, reads, clock, invoked>>
  /\ UNCHANGED optimizedWith
  /\ UNCHANGED serverVars

SetConsistencyMode ==
  /\ InSession
  /\ interactions < MaxInteractions
  /\ interactions' = interactions + 1
  /\ \E v \in UIConsistencyModes \ {consistencyMode} : consistencyMode' = v
  /\ toast' = NoToast
  /\ UNCHANGED <<uploadedImages, prompt, optimizedPrompt, aspectRatio,
                 generatedThumbnail, editPrompt, isOptimizing, isLoading,
                 isEditing, generationHistory, selectedStyleReference,
                 requests, reads, clock, invoked>>
  /\ UNCHANGED optimizedWith
  /\ UNCHANGED serverVars

\* "Use Style": the displayed thumbnail becomes the style reference
UseStyle ==
  /\ InSession
  /\ interactions < MaxInteractions
  /\ interactions' = interactions + 1
  /\ EditPanelShown
  /\ ~isLoading
  /\ selectedStyleReference' = generatedThumbnail
  /\ selectedStyleReference' # selectedStyleReference
  /\ toast' = NoToast
  /\ UNCHANGED <<uploadedImages, prompt, optimizedPrompt, aspectRatio,
                 generatedThumbnail, editPrompt, isOptimizing, isLoading,
                 isEditing, generationHistory, consistencyMode, requests,
                 reads, clock, invoked>>
  /\ UNCHANGED optimizedWith
  /\ UNCHANGED serverVars

HISTORY_SHOWN == 6

\* a tile of the history (its last six entries) is clicked
SelectHistoryItem ==
  /\ InSession
  /\ interactions < MaxInteractions
  /\ interactions' = interactions + 1
  /\ \E k \in 1..Len(generationHistory) :
       /\ k > Len(generationHistory) - HISTORY_SHOWN
       /\ selectedStyleReference' = generationHistory[k].image
  /\ selectedStyleReference' # selectedStyleReference
  /\ toast' = NoToast
  /\ UNCHANGED <<uploadedImages, prompt, optimizedPrompt, aspectRatio,
                 generatedThumbnail, editPrompt, isOptimizing, isLoading,
                 isEditing, generationHistory, consistencyMode, requests,
                 reads, clock, invoked>>
  /\ UNCHANGED optimizedWith
  /\ UNCHANGED serverVars

(***************************************************************************)
(* Optimize.                                                               *)
(***************************************************************************)
\* variant: the handler does not check its prompt
handleOptimizePromptUnvalidated ==
  LET in == [prompt |-> prompt, aspectRatio |-> aspectRatio,
             image1 |-> At(uploadedImages, 1),
             image2 |-> At(uploadedImages, 2),
             image3 |-> At(uploadedImages, 3)]
  IN  /\ isOptimizing' = TRUE
      /\ optimizedPrompt' = <<>>
      /\ generatedThumbnail' = Undefined
      /\ invoked' = invoked + 1
      /\ requests' = requests \cup
           {Request(invoked + 1, "handleOptimizePrompt", in, [none |-> TRUE],
                    FlowCalls(OptimizePromptInputSchema(in),
                              OptimizeCall(in)))}
      /\ toast' = NoToast

\* handleOptimizePrompt up to `await optimizePromptAction(...)`
handleOptimizePrompt ==
  IF prompt = <<>>
  THEN /\ toast' = Toast("Missing Prompt",
                         "Please provide a prompt to optimize.")
       /\ UNCHANGED <<isOptimizing, optimizedPrompt, generatedThumbnail,
                      requests, invoked>>
  ELSE LET in == [prompt |-> prompt, aspectRatio |-> aspectRatio,
                  image1 |-> At(uploadedImages, 1),
                  image2 |-> At(uploadedImages, 2),
                  image3 |-> At(uploadedImages, 3)]
       IN  /\ isOptimizing' = TRUE
           /\ optimizedPrompt' = <<>>
           /\ generatedThumbnail' = Undefined
           /\ invoked' = invoked + 1
           /\ requests' = requests \cup
                {Request(invoked + 1, "handleOptimizePrompt", in,
                         [none |-> TRUE],
                         FlowCalls(OptimizePromptInputSchema(in),
                                   OptimizeCall(in)))}
           /\ toast' = NoToast

\* the "Optimize Prompt" button can be clicked
OptimizeEnabled == ~(allDisabled \/ prompt = <<>>)

\* the "Optimize Prompt" button
ClickOptimize ==
  /\ InSession
  /\ OptimizeEnabled
  /\ invoked < MaxRequests
  /\ handleOptimizePrompt
  /\ UNCHANGED <<uploadedImages, prompt, aspectRatio, editPrompt, isLoading,
                 isEditing, generationHistory, selectedStyleReference,
                 consistencyMode, reads, clock, interactions>>
  /\ UNCHANGED optimizedWith
  /\ UNCHANGED serverVars

\* what the awaited action call can resolve to
OptimizeResults(r) ==
  IF r.calls = <<>> THEN {optimizePromptAction(Thrown(SchemaError))}
  ELSE {optimizePromptAction(optimizePromptFlow(r.input, reply)) :
          reply \in RepliesOf(r.calls[1].model)}

\* handleOptimizePrompt from the return of the action to its end
OptimizeReturns ==
  /\ InSession
  /\ \E r \in requests :
       /\ r.handler = "handleOptimizePrompt"
       /\ requests' = requests \ {r}
       /\ \E res \in OptimizeResults(r) :
            IF res.success
            THEN /\ optimizedPrompt' = res.optimizedPrompt
                 /\ optimizedWith' = r.input.aspectRatio
                 /\ toast' = NoToast
            ELSE /\ toast' = Toast("Optimization Failed", ErrorDescription(res))
                 /\ UNCHANGED <<optimizedPrompt, optimizedWith>>
  /\ isOptimizing' = FALSE
  /\ UNCHANGED <<uploadedImages, prompt, aspectRatio, generatedThumbnail,
                 editPrompt, isLoading, isEditing, generationHistory,
                 selectedStyleReference, consistencyMode, reads, clock,
                 invoked, interactions>>
  /\ UNCHANGED serverVars

(***************************************************************************)
(* Generate.                                                               *)
(***************************************************************************)
\* the prompt sent to the generator: the optimized prompt plus the sentence
\* of the consistency mode when a style reference is selected
UIEnhancedPrompt ==
  IF consistencyMode = "character" /\ selectedStyleReference # ""
  THEN optimizedPrompt \o
       <<" ", "Maintain character consistency with the reference image provided. Keep the same facial features, clothing style, and character design throughout.">>
  ELSE IF consistencyMode = "style" /\ selectedStyleReference # ""
  THEN optimizedPrompt \o
       <<" ", "Apply the artistic style, color palette, lighting, and visual treatment from the reference image while creating new content.">>
  ELSE optimizedPrompt

\* variant: slot 1 is always the first uploaded image
handleGenerateNoStyleSlot ==
  IF optimizedPrompt = <<>>
  THEN /\ toast' = Toast("Missing Optimized Prompt",
                         "Please optimize a prompt before generating.")
       /\ UNCHANGED <<isLoading, generatedThumbnail, requests, invoked>>
  ELSE LET in == [prompt |-> UIEnhancedPrompt, aspectRatio |-> aspectRatio,
                  image1 |-> At(uploadedImages, 1),
                  image2 |-> At(uploadedImages, 2),
                  image3 |-> At(uploadedImages, 3)]
       IN  /\ isLoading' = TRUE
           /\ generatedThumbnail' = Undefined
           /\ invoked' = invoked + 1
           /\ requests' = requests \cup
                {Request(invoked + 1, "handleGenerate", in,
                         [optimizedPrompt |-> optimizedPrompt,
                          aspectRatio |-> aspectRatio],
                         FlowCalls(GenerateThumbnailFromPromptInputSchema(in),
                                   GenerateCall(in)))}
           /\ toast' = NoToast

\* handleGenerate up to `await generateThumbnailAction(input)`
handleGenerate ==
  IF optimizedPrompt = <<>>
  THEN /\ toast' = Toast("Missing Optimized Prompt",
                         "Please optimize a prompt before generating.")
       /\ UNCHANGED <<isLoading, generatedThumbnail, requests, invoked>>
  ELSE LET in == [prompt |-> UIEnhancedPrompt, aspectRatio |-> aspectRatio,
                  image1 |-> IF selectedStyleReference # ""
                             THEN selectedStyleReference
                             ELSE At(uploadedImages, 1),
                  image2 |-> At(uploadedImages, 2),
                  image3 |-> At(uploadedImages, 3)]
       IN  /\ isLoading' = TRUE
           /\ generatedThumbnail' = Undefined
           /\ invoked' = invoked + 1
           /\ requests' = requests \cup
                {Request(invoked + 1, "handleGenerate", in,
                         [optimizedPrompt |-> optimizedPrompt,
                          aspectRatio |-> aspectRatio],
                         FlowCalls(GenerateThumbnailFromPromptInputSchema(in),
                                   GenerateCall(in)))}
           /\ toast' = NoToast

\* the "Generate Thumbnail" button is rendered (there is an optimized
\* prompt) and can be clicked
GenerateEnabled ==
  /\ optimizedPrompt # <<>>
  /\ ~(allDisabled \/ optimizedPrompt = <<>>)

\* the "Variation" button of the refine panel is rendered and can be clicked
VariationEnabled ==
  /\ EditPanelShown
  /\ ~(isLoading \/ optimizedPrompt = <<>>)

\* the "Generate Thumbnail" button
ClickGenerate ==
  /\ InSession
  /\ GenerateEnabled
  /\ invoked < MaxRequests
  /\ handleGenerate
  /\ UNCHANGED <<uploadedImages, prompt, optimizedPrompt, aspectRatio,
                 editPrompt, isOptimizing, isEditing, generationHistory,
                 selectedStyleReference, consistencyMode, reads, clock,
                 interactions>>
  /\ UNCHANGED optimizedWith
  /\ UNCHANGED serverVars

\* the "Variation" button of the refine panel
ClickVariation ==
  /\ InSession
  /\ VariationEnabled
  /\ invoked < MaxRequests
  /\ handleGenerate
  /\ UNCHANGED <<uploadedImages, prompt, optimizedPrompt, aspectRatio,
                 editPrompt, isOptimizing, isEditing, generationHistory,
                 selectedStyleReference, consistencyMode, reads, clock,
                 interactions>>
  /\ UNCHANGED optimizedWith
  /\ UNCHANGED serverVars

GenerateResults(r) ==
  IF r.calls = <<>> THEN {generateThumbnailAction(Thrown(SchemaError))}
  ELSE {generateThumbnailAction(generateThumbnailFromPromptFlow(r.input, reply)) :
          reply \in RepliesOf(r.calls[1].model)}

\* variant: the busy flag is cleared on the success path only
GenerateReturnsBusyAfterFailure ==
  /\ InSession
  /\ \E r \in requests :
       /\ r.handler = "handleGenerate"
       /\ requests' = requests \ {r}
       /\ \E res \in GenerateResults(r) :
            IF res.success
            THEN /\ generatedThumbnail' = res.thumbnail
                 /\ clock' = clock + 1
                 /\ generationHistory' =
                      Append(generationHistory,
                             [prompt |-> r.closure.optimizedPrompt,
                              image |-> res.thumbnail,
                              timestamp |-> clock + 1,
                              aspectRatio |-> r.closure.aspectRatio])
                 /\ toast' = NoToast
                 /\ isLoading' = FALSE
            ELSE /\ toast' = Toast("Generation Failed", ErrorDescription(res))
                 /\ UNCHANGED <<generatedThumbnail, generationHistory, clock,
                                isLoading>>
  /\ UNCHANGED <<uploadedImages, prompt, optimizedPrompt, aspectRatio,
                 editPrompt, isOptimizing, isEditing, selectedStyleReference,
                 consistencyMode, reads, invoked, interactions>>
  /\ UNCHANGED optimizedWith
  /\ UNCHANGED serverVars

\* handleGenerate from the return of the action to its end
GenerateReturns ==
  /\ InSession
  /\ \E r \in requests :
       /\ r.handler = "handleGenerate"
       /\ requests' = requests \ {r}
       /\ \E res \in GenerateResults(r) :
            IF res.success
            THEN /\ generatedThumbnail' = res.thumbnail
                 /\ clock' = clock + 1
                 /\ generationHistory' =
                      Append(generationHistory,
                             [prompt |-> r.closure.optimizedPrompt,
                              image |-> res.thumbnail,
                              timestamp |-> clock + 1,
                              aspectRatio |-> r.closure.aspectRatio])
                 /\ toast' = NoToast
            ELSE /\ toast' = Toast("Generation Failed", ErrorDescription(res))
                 /\ UNCHANGED <<generatedThumbnail, generationHistory, clock>>
  /\ isLoading' = FALSE
  /\ UNCHANGED <<uploadedImages, prompt, optimizedPrompt, aspectRatio,
                 editPrompt, isOptimizing, isEditing, selectedStyleReference,
                 consistencyMode, reads, invoked, interactions>>
  /\ UNCHANGED optimizedWith
  /\ UNCHANGED serverVars

(***************************************************************************)
(* Edit.                                                                   *)
(***************************************************************************)
\* handleEdit up to `await editThumbnailAction(...)`
handleEdit ==
  IF editPrompt = <<>> \/ ~Truthy(generatedThumbnail)
  THEN /\ toast' = Toast("Missing Edit Prompt",
                         "Please describe the changes you want to make.")
       /\ UNCHANGED <<isEditing, requests, invoked>>
  ELSE LET in == [baseImage |-> generatedThumbnail, prompt |-> editPrompt,
                  aspectRatio |-> aspectRatio]
       IN  /\ isEditing' = TRUE
           /\ invoked' = invoked + 1
           /\ requests' = requests \cup
                {Request(invoked + 1, "handleEdit", in, [none |-> TRUE],
                         FlowCalls(IterativelyEditThumbnailInputSchema(in),
                                   EditCall(in)))}
           /\ toast' = NoToast

\* the "Refine" button of the refine panel is rendered and can be clicked
RefineEnabled ==
  /\ EditPanelShown
  /\ ~(isEditing \/ isLoading \/ editPrompt = <<>>)

\* the "Refine" button of the refine panel
ClickRefine ==
  /\ InSession
  /\ RefineEnabled
  /\ invoked < MaxRequests
  /\ handleEdit
  /\ UNCHANGED <<uploadedImages, prompt, optimizedPrompt, aspectRatio,
                 generatedThumbnail, editPrompt, isOptimizing, isLoading,
                 generationHistory, selectedStyleReference, consistencyMode,
                 reads, clock, interactions>>
  /\ UNCHANGED optimizedWith
  /\ UNCHANGED serverVars

EditResults(r) ==
  IF r.calls = <<>> THEN {editThumbnailAction(Thrown(SchemaError))}
  ELSE {editThumbnailAction(iterativelyEditThumbnailFlow(r.input, reply)) :
          reply \in RepliesOf(r.calls[1].model)}

\* variant: a successful edit is recorded in the history as well
EditReturnsRecordingHistory ==
  /\ InSession
  /\ \E r \in requests :
       /\ r.handler = "handleEdit"
       /\ requests' = requests \ {r}
       /\ \E res \in EditResults(r) :
            IF res.success
            THEN /\ generatedThumbnail' = res.thumbnail
                 /\ editPrompt' = <<>>
                 /\ clock' = clock + 1
                 /\ generationHistory' =
                      Append(generationHistory,
                             [prompt |-> r.input.prompt,
                              image |-> res.thumbnail,
                              timestamp |-> clock + 1,
                              aspectRatio |-> r.input.aspectRatio])
                 /\ toast' = NoToast
            ELSE /\ toast' = Toast("Edit Failed", ErrorDescription(res))
                 /\ UNCHANGED <<generatedThumbnail, editPrompt,
                                generationHistory, clock>>
  /\ isEditing' = FALSE
  /\ UNCHANGED <<uploadedImages, prompt, optimizedPrompt, aspectRatio,
                 isOptimizing, isLoading, selectedStyleReference,
                 consistencyMode, reads, invoked, interactions>>
  /\ UNCHANGED optimizedWith
  /\ UNCHANGED serverVars

\* handleEdit from the return of the action to its end
EditReturns ==
  /\ InSession
  /\ \E r \in requests :
       /\ r.handler = "handleEdit"
       /\ requests' = requests \ {r}
       /\ \E res \in EditResults(r) :
            IF res.success
            THEN /\ generatedThumbnail' = res.thumbnail
                 /\ editPrompt' = <<>>
                 /\ toast' = NoToast
            ELSE /\ toast' = Toast("Edit Failed", ErrorDescription(res))
                 /\ UNCHANGED <<generatedThumbnail, editPrompt>>
  /\ isEditing' = FALSE
  /\ UNCHANGED <<uploadedImages, prompt, optimizedPrompt, aspectRatio,
                 isOptimizing, isLoading, generationHistory,
                 selectedStyleReference, consistencyMode, reads, clock,
                 invoked, interactions>>
  /\ UNCHANGED optimizedWith
  /\ UNCHANGED serverVars

NextUI ==
  \/ SelectFiles \/ FilesRead \/ RemoveImage
  \/ SetPrompt \/ SetAspectRatio \/ SetOptimizedPrompt \/ SetEditPrompt
  \/ SetConsistencyMode \/ UseStyle \/ SelectHistoryItem
  \/ ClickOptimize \/ OptimizeReturns
  \/ ClickGenerate \/ ClickVariation \/ GenerateReturns
  \/ ClickRefine \/ EditReturns

SpecUI == Init /\ [][NextUI]_vars

(***************************************************************************)
(* A page session in which every server action call returns: the awaited   *)
(* promise of each suspended handler settles, so the handler resumes.      *)
(***************************************************************************)
SpecUIFair ==
  /\ SpecUI
  /\ WF_vars(OptimizeReturns)
  /\ WF_vars(GenerateReturns)
  /\ WF_vars(EditReturns)

(***************************************************************************)
(* The handlers run with their required input missing.  The buttons are    *)
(* disabled in these states, so no click gets here; the handlers' own      *)
(* checks are exercised by running them directly.                          *)
(***************************************************************************)
OptimizeWithoutPrompt ==
  /\ InSession
  /\ prompt = <<>>
  /\ handleOptimizePrompt
  /\ UNCHANGED <<uploadedImages, prompt, aspectRatio, editPrompt, isLoading,
                 isEditing, generationHistory, selectedStyleReference,
                 consistencyMode, reads, clock, interactions>>
  /\ UNCHANGED optimizedWith
  /\ UNCHANGED serverVars

GenerateWithoutOptimizedPrompt ==
  /\ InSession
  /\ optimizedPrompt = <<>>
  /\ handleGenerate
  /\ UNCHANGED <<uploadedImages, prompt, optimizedPrompt, aspectRatio,
                 editPrompt, isOptimizing, isEditing, generationHistory,
                 selectedStyleReference, consistencyMode, reads, clock,
                 interactions>>
  /\ UNCHANGED optimizedWith
  /\ UNCHANGED serverVars

EditWithoutInput ==
  /\ InSession
  /\ editPrompt = <<>> \/ ~Truthy(generatedThumbnail)
  /\ handleEdit
  /\ UNCHANGED <<uploadedImages, prompt, optimizedPrompt, aspectRatio,
                 generatedThumbnail, editPrompt, isOptimizing, isLoading,
                 generationHistory, selectedStyleReference, consistencyMode,
                 reads, clock, interactions>>
  /\ UNCHANGED optimizedWith
  /\ UNCHANGED serverVars

NextHandlers ==
  \/ NextUI
  \/ OptimizeWithoutPrompt \/ GenerateWithoutOptimizedPrompt
  \/ EditWithoutInput

SpecHandlers == Init /\ [][NextHandlers]_vars

Next ==
  \/ ProviderReply
  \/ OptimizeStart \/ OptimizeResume
  \/ GenerateStart \/ GenerateResume
  \/ EditStart \/ EditResume
  \/ BatchStart \/ BatchResume
  \/ FusionStart \/ FusionAnalysisResume \/ FusionImageResume

Spec == Init /\ [][Next]_vars

\* both kinds of caller: a direct invocation, or a session of the page
NextAll == Next \/ NextUI

SpecAll == Init /\ [][NextAll]_vars

(***************************************************************************)
(* Properties.                                                             *)
(***************************************************************************)
Returned(a) == pc = "done" /\ action = a

\* the provider reply gave no image: media absent or media.url empty
NoImage(reply) == reply.kind = "ok" /\ ~Truthy(MediaUrl(reply))
GaveImage(reply) == reply.kind = "ok" /\ Truthy(MediaUrl(reply))

\* 0-based positions of the batch items whose provider call threw
ThrowingItems == {k \in 0..(Len(replies) - 1) : replies[k + 1].kind = "throw"}

\* C1: a batch of N >= 1 prompts in which the provider throws on the items
\* of F and returns an image for all others returns exactly the entries with
\* index outside F, in increasing index order, each with prompts[index] as
\* its prompt, and consistency_score = (N - |F|) / N.
C1_BatchKeepsExactlyTheSuccessfulItems ==
  (/\ Returned("batchGenerateAction")
   /\ Len(input.prompts) >= 1
   /\ \A k \in 1..Len(replies) : ~NoImage(replies[k]))
  => LET N == Len(input.prompts)
         F == ThrowingItems
         out == flowOutcome.value
         t == out.thumbnails
     IN  /\ Len(replies) = N
         /\ flowOutcome.kind = "return"
         /\ Len(t) = N - Cardinality(F)
         /\ {t[j].index : j \in 1..Len(t)} = (0..(N - 1)) \ F
         /\ \A j \in 1..(Len(t) - 1) : t[j].index < t[j + 1].index
         /\ \A j \in 1..Len(t) : t[j].prompt = input.prompts[t[j].index + 1]
         /\ out.consistency_score.den # 0
         /\ out.consistency_score.num * N
              = (N - Cardinality(F)) * out.consistency_score.den
         /\ result.thumbnails = t

\* a batch of two prompts whose first item threw and whose second succeeded
C1_Witness ==
  /\ Returned("batchGenerateAction")
  /\ Len(input.prompts) = 2
  /\ ThrowingItems = {0}
  /\ GaveImage(replies[2])
  /\ Len(result.thumbnails) = 1
  /\ result.thumbnails[1].index = 1

\* C2: a failing item never aborts the batch: for N >= 1 prompts and every
\* pattern of per-item outcomes, never more than N calls are issued, call k
\* is the call of prompt k, and when the action returns exactly N calls were
\* issued and settled, the flow returned, and the action reports success.
C2_BatchNeverAborts ==
  (action = "batchGenerateAction" /\ Len(input.prompts) >= 1)
  => /\ Len(calls) <= Len(input.prompts)
     /\ \A k \in 1..Len(calls) :
          Contains(calls[k].text, input.basePrompt \o <<" ">> \o input.prompts[k])
     /\ pc = "done" =>
          /\ Len(calls) = Len(input.prompts)
          /\ inFlight = {}
          /\ flowOutcome.kind = "return"
          /\ result.success = TRUE

\* every item of a batch of two failed, one by throwing, one without image
C2_Witness ==
  /\ Returned("batchGenerateAction")
  /\ Len(input.prompts) = 2
  /\ replies[1].kind = "throw"
  /\ NoImage(replies[2])
  /\ result.success = TRUE
  /\ result.thumbnails = <<>>

\* C3: the provider calls of a batch are sequential and in prompt order: at
\* most one is in flight, every call but the last issued has settled, and
\* the k-th call issued is the call of the k-th prompt.
C3_BatchCallsAreSequential ==
  action = "batchGenerateAction"
  => /\ Cardinality(inFlight) <= 1
     /\ \A k \in 1..(Len(calls) - 1) : replies[k] # Pending
     /\ \A k \in 1..Len(calls) :
          Contains(calls[k].text, input.basePrompt \o <<" ">> \o input.prompts[k])
     /\ Len(calls) \in {i, i + 1}

\* the second call of a batch is in flight, the first has settled
C3_Witness ==
  /\ action = "batchGenerateAction"
  /\ Len(calls) = 2
  /\ replies[1] # Pending
  /\ replies[2] = Pending
  /\ input.prompts[1] # input.prompts[2]

\* some reference image was supplied to the optimizer
AnyReferenceImage(in) ==
  \E u \in {in.image1, in.image2, in.image3} : Truthy(u)

\* C4: when the provider call of optimizePrompt throws, the flow returns the
\* fallback template: a string fixed by the aspect ratio, the user prompt
\* and whether any reference image was supplied, which contains the user
\* prompt and the aspect ratio.
C4_OptimizerFallbackOnThrow ==
  (Returned("optimizePromptAction") /\ replies[1].kind = "throw")
  => /\ flowOutcome.kind = "return"
     /\ flowOutcome.value.optimizedPrompt
          = FallbackOnThrow([prompt |-> input.prompt,
                             aspectRatio |-> input.aspectRatio],
                            IF AnyReferenceImage(input) THEN 1 ELSE 0)
     /\ Contains(flowOutcome.value.optimizedPrompt, input.prompt)
     /\ Contains(flowOutcome.value.optimizedPrompt, <<input.aspectRatio>>)

\* the provider threw on a request with a prompt and two reference images
C4_Witness ==
  /\ Returned("optimizePromptAction")
  /\ replies[1].kind = "throw"
  /\ input.prompt # <<>>
  /\ Len(calls[1].images) = 2
  /\ result.success = TRUE

\* C5: the optimizer never blocks: whatever the provider does, the action
\* returns success with a non-empty optimized prompt, and the fallback of
\* the "provider threw" path and of the "empty response" path are the same
\* string for the same input.
C5_OptimizerNeverBlocks ==
  Returned("optimizePromptAction")
  => /\ result.success = TRUE
     /\ result.optimizedPrompt # <<>>
     /\ \A k \in 1..Len(result.optimizedPrompt) :
          result.optimizedPrompt[k] # ""
     /\ replies[1].kind = "throw" =>
          result.optimizedPrompt
            = FallbackOnEmpty(input, Len(calls[1].images))
     /\ (replies[1].kind = "ok" /\ FinalText(replies[1]) = <<>>) =>
          result.optimizedPrompt
            = FallbackOnThrow(input, Len(calls[1].images))

\* the provider answered without text and the fallback was returned
C5_Witness ==
  /\ Returned("optimizePromptAction")
  /\ replies[1].kind = "ok"
  /\ replies[1].text = <<>>
  /\ ~replies[1].output.defined
  /\ result.success = TRUE
  /\ Contains(result.optimizedPrompt, FallbackHead)

\* C6: when the provider answers generate or edit without an image, the
\* flow throws an explicit error and the action returns success: false with
\* that message; neither action returns success: true without a thumbnail.
C6_NoImageIsAnError ==
  (pc = "done" /\ action \in {"generateThumbnailAction", "editThumbnailAction"})
  => /\ NoImage(replies[1]) =>
          /\ flowOutcome.kind = "throw"
          /\ flowOutcome.message # ""
          /\ result.success = FALSE
          /\ result.error = flowOutcome.message
     /\ result.success = TRUE =>
          /\ "thumbnail" \in DOMAIN result
          /\ Truthy(result.thumbnail)

\* generate was answered with a media object whose url is empty
C6_Witness ==
  /\ Returned("generateThumbnailAction")
  /\ replies[1].kind = "ok"
  /\ replies[1].media.defined
  /\ replies[1].media.url = ""
  /\ result.success = FALSE

\* the payload fields of each action's successful result
PayloadFields(a) ==
  CASE a = "optimizePromptAction" -> {"optimizedPrompt"}
    [] a = "generateThumbnailAction" -> {"thumbnail"}
    [] a = "editThumbnailAction" -> {"thumbnail"}
    [] a = "batchGenerateAction" -> {"thumbnails", "consistency_score"}
    [] a = "intelligentFusionAction" ->
         {"fusedImage", "fusionDescription", "technicalDetails"}

\* C7: every server action returns instead of throwing: an error of its
\* flow becomes {success: false, error: message}, and every returned value
\* is either success with the payload and no error field, or failure with
\* an error field and no payload.
C7_ActionsReturnUniformShape ==
  pc = "done"
  => /\ result # Pending
     /\ flowOutcome.kind \in {"return", "throw"}
     /\ flowOutcome.kind = "throw" =>
          result = [success |-> FALSE, error |-> flowOutcome.message]
     /\ flowOutcome.kind = "return" => result.success = TRUE
     /\ \/ /\ result.success = TRUE
           /\ DOMAIN result = {"success"} \cup PayloadFields(action)
        \/ /\ result.success = FALSE
           /\ DOMAIN result = {"success", "error"}

\* a provider failure surfaced by the generate action
C7_Witness ==
  /\ Returned("generateThumbnailAction")
  /\ replies[1] = Thrown("quota exceeded")
  /\ result = [success |-> FALSE, error |-> "quota exceeded"]

\* C8: fusion with fewer than 2 or more than 4 images is rejected before
\* any provider call, and the action returns success: false.
C8_FusionRejectsBadImageCount ==
  (/\ action = "intelligentFusionAction"
   /\ (Len(input.images) < 2 \/ Len(input.images) > 4))
  => /\ calls = <<>>
     /\ pc = "done"
     /\ flowOutcome.kind = "throw"
     /\ result.success = FALSE

\* fusion was invoked with five images
C8_Witness ==
  /\ Returned("intelligentFusionAction")
  /\ Len(input.images) = 5
  /\ calls = <<>>
  /\ result.success = FALSE

\* C9: fusion's two calls are issued in order: first the text analysis,
\* then, once it has returned, the image call whose prompt embeds the
\* analysis text; if the analysis throws no image call is issued and the
\* fusion fails; if the image call returns no image the fusion fails with
\* an explicit error.
C9_FusionCallsInOrder ==
  action = "intelligentFusionAction"
  => /\ Len(calls) <= 2
     /\ Len(calls) >= 1 => calls[1].model = TextModel
     /\ Len(calls) = 2 =>
          /\ calls[2].model = ImageModel
          /\ replies[1].kind = "ok"
          /\ Contains(calls[2].text,
                      <<"ANALYSIS CONTEXT:", " ">> \o replies[1].text)
     /\ (Len(calls) >= 1 /\ replies[1].kind = "throw") =>
          /\ Len(calls) = 1
          /\ pc = "done" => (flowOutcome.kind = "throw" /\ result.success = FALSE)
     /\ (pc = "done" /\ Len(calls) = 2 /\ NoImage(replies[2])) =>
          /\ flowOutcome.kind = "throw"
          /\ flowOutcome.message # ""
          /\ result.success = FALSE

\* the analysis returned text and the image call then returned no image
C9_Witness ==
  /\ Returned("intelligentFusionAction")
  /\ Len(calls) = 2
  /\ replies[1].kind = "ok"
  /\ replies[1].text = ModelText
  /\ NoImage(replies[2])
  /\ result.success = FALSE

SingleCallActions ==
  {"optimizePromptAction", "generateThumbnailAction", "editThumbnailAction"}

\* the provider calls one invocation has issued, per flow
C10_CallsPerInvocation ==
  /\ action \in SingleCallActions =>
       /\ Len(calls) <= 1
       /\ pc = "done" => Len(calls) = 1
  /\ action = "intelligentFusionAction" => Len(calls) <= 2
  /\ action = "batchGenerateAction" =>
       /\ Len(calls) <= Len(input.prompts)
       /\ \A k \in 1..Len(calls) : calls[k] = BatchCall(input, k - 1)
  /\ \A r \in requests : Len(r.calls) <= 1

\* a step of the page that calls a server action is a click: it resumes no
\* suspended handler, and it makes one call
C10_HandlersNeverReissue ==
  invoked' # invoked =>
    /\ invoked' = invoked + 1
    /\ requests \subseteq requests'
    /\ Cardinality(requests') = Cardinality(requests) + 1

\* C10: no retries.  One invocation of the optimize, generate or edit action
\* issues exactly one provider call whatever the call's outcome, one
\* invocation of the fusion action issues at most two, one invocation of the
\* batch action issues at most one call per prompt (call k is the call of
\* prompt k), and a page handler resumed with the result of its server action
\* never calls the action again.
C10_NoRetries ==
  []C10_CallsPerInvocation /\ [][C10_HandlersNeverReissue]_vars

\* a generate invocation whose provider call threw has returned a failure,
\* and that call is the only one it issued
C10_Witness ==
  /\ Returned("generateThumbnailAction")
  /\ Len(calls) = 1
  /\ replies[1].kind = "throw"
  /\ result.success = FALSE

(***************************************************************************)
(* Properties of the page.                                                 *)
(***************************************************************************)
\* the handlers resumed by this step
Resumed(handler) == {r \in requests \ requests' : r.handler = handler}

HistoryEntryFields == {"prompt", "image", "timestamp", "aspectRatio"}

\* C11: the generation history is append-only and counts the successful
\* generations.  A step changes the history only by resuming a generate
\* handler whose action call returned success, and then by appending one
\* entry {prompt, image, timestamp, aspectRatio} carrying the returned image
\* after the entries already there; a generate handler resumed with a failure
\* leaves it unchanged, and so does every other step (optimize and edit
\* returns of either outcome, uploads, removals, form fields, style picks).
C11_HistoryIsAppendOnly ==
  [][/\ generationHistory' # generationHistory =>
          /\ Resumed("handleGenerate") # {}
          /\ toast'.title # "Generation Failed"
          /\ Len(generationHistory') = Len(generationHistory) + 1
          /\ SubSeq(generationHistory', 1, Len(generationHistory))
               = generationHistory
          /\ LET entry == generationHistory'[Len(generationHistory')]
             IN  /\ DOMAIN entry = HistoryEntryFields
                 /\ entry.image = generatedThumbnail'
                 /\ Truthy(entry.image)
     /\ Resumed("handleGenerate") # {} =>
          IF toast'.title = "Generation Failed"
          THEN generationHistory' = generationHistory
          ELSE Len(generationHistory') = Len(generationHistory) + 1
    ]_vars

\* one generation succeeded, a later one failed, and the history still holds
\* the one entry
C11_Witness ==
  /\ Len(generationHistory) = 1
  /\ toast.title = "Generation Failed"
  /\ requests = {}

\* C12: the page never holds more than MAX_IMAGES uploaded reference images,
\* whatever the order of file selections, file reads and removals.
C12_AtMostThreeImages == Len(uploadedImages) <= MAX_IMAGES

BusyFlags == <<isOptimizing, isLoading, isEditing>>

\* C13: at most one of the optimize, generate and edit requests of the page
\* is in flight: no two of isOptimizing, isLoading, isEditing are true
\* together, and no two handlers are suspended at their action call.
C13_AtMostOneRequestInFlight ==
  /\ Cardinality({k \in 1..3 : BusyFlags[k]}) <= 1
  /\ Cardinality(requests) <= 1

\* everything of the page but the toast
PageFrame ==
  <<uploadedImages, prompt, optimizedPrompt, aspectRatio, generatedThumbnail,
    editPrompt, isOptimizing, isLoading, isEditing, generationHistory,
    selectedStyleReference, consistencyMode, requests, reads, clock, invoked,
    interactions, optimizedWith>>

\* C14: missing required input is caught by the handlers before any server
\* action is called.  handleOptimizePrompt run with an empty prompt,
\* handleGenerate run with an empty optimized prompt, and handleEdit run with
\* an empty edit prompt or without a current thumbnail each show their
\* validation message, call no action (no request is added, the count of
\* action calls stays), and leave every state variable of the page unchanged.
C14_MissingInputIsCaughtInTheUI ==
  [][/\ OptimizeWithoutPrompt =>
          /\ toast' = Toast("Missing Prompt",
                            "Please provide a prompt to optimize.")
          /\ UNCHANGED PageFrame
     /\ GenerateWithoutOptimizedPrompt =>
          /\ toast' = Toast("Missing Optimized Prompt",
                            "Please optimize a prompt before generating.")
          /\ UNCHANGED PageFrame
     /\ EditWithoutInput =>
          /\ toast' = Toast("Missing Edit Prompt",
                            "Please describe the changes you want to make.")
          /\ UNCHANGED PageFrame
    ]_vars

\* handleEdit was run on a displayed thumbnail with an empty edit prompt
C14_Witness ==
  /\ toast.title = "Missing Edit Prompt"
  /\ Truthy(generatedThumbnail)
  /\ editPrompt = <<>>
  /\ ~isEditing
  /\ requests = {}

(***************************************************************************)
(* Properties of the flows' inputs and instructions.                       *)
(***************************************************************************)
\* C15: the required inputs are required at the flows' boundary.  An
\* optimize or generate invocation with an empty prompt, and an edit
\* invocation with an empty instruction or an empty base image, issues no
\* provider call and ends in a failure result.
C15_EmptyInputIsRejected ==
  LET missing ==
        \/ /\ action \in {"optimizePromptAction", "generateThumbnailAction"}
           /\ input.prompt = <<>>
        \/ /\ action = "editThumbnailAction"
           /\ input.prompt = <<>> \/ input.baseImage = ""
  IN  missing =>
        /\ calls = <<>>
        /\ pc = "done" => result.success = FALSE

HasToken(s, t) == \E k \in 1..Len(s) : s[k] = t

\* the vertical "do not crop; scale and reposition" sentence, in either of
\* its two wordings
HasNoCropWording(s) ==
  HasToken(s, NoCropWording) \/ HasToken(s, BatchNoCropWording)

\* the calls whose system instruction is built from the input: all but the
\* fusion flow's analysis call
BuiltSystemCalls ==
  {k \in 1..Len(calls) :
     ~(action = "intelligentFusionAction" /\ calls[k].model = TextModel)}

\* C16 as stated: every system instruction built by the optimizer, the
\* generator, the editor, the batch flow and the fusion flow contains the
\* input's aspect ratio string, and contains the vertical do-not-crop,
\* reposition wording exactly when the ratio is 9:16.
C16_EverySystemHasRatioAndVerticalWording ==
  \A k \in BuiltSystemCalls :
    /\ HasToken(calls[k].system, input.aspectRatio)
    /\ HasNoCropWording(calls[k].system) <=> input.aspectRatio = "9:16"

\* C16 as amended: every system instruction built from the input contains
\* the input's aspect ratio string; those of the optimizer, the generator,
\* the editor and the batch flow contain the do-not-crop, reposition wording
\* exactly when the ratio is 9:16; that of the fusion image call never
\* contains it; and the fusion analysis call carries a fixed system
\* instruction without the ratio.
C16_SystemHasRatio ==
  \A k \in 1..Len(calls) :
    IF k \in BuiltSystemCalls
    THEN /\ HasToken(calls[k].system, input.aspectRatio)
         /\ IF action = "intelligentFusionAction"
            THEN ~HasNoCropWording(calls[k].system)
            ELSE HasNoCropWording(calls[k].system)
                   <=> input.aspectRatio = "9:16"
    ELSE /\ calls[k].system = AnalysisSystem
         /\ \A ratio \in AspectRatios : ~HasToken(calls[k].system, ratio)

\* the fusion flow has issued its image call for a vertical composition
C16_Witness ==
  /\ action = "intelligentFusionAction"
  /\ input.aspectRatio = "9:16"
  /\ Len(calls) = 2
  /\ calls[2].model = ImageModel

\* an optimize invocation with a non-empty prompt and no reference image
\* has returned
OptimizedWithoutImages ==
  /\ Returned("optimizePromptAction")
  /\ input.prompt # <<>>
  /\ calls[1].images = <<>>

\* C17 as stated: for every non-empty prompt and every aspect ratio, with no
\* reference images, the optimizer returns a non-empty string that contains
\* the selected aspect ratio string, whatever the provider returns.
C17_OptimizedPromptHasRatio ==
  OptimizedWithoutImages =>
    /\ result.success = TRUE
    /\ result.optimizedPrompt # <<>>
    /\ HasToken(result.optimizedPrompt, input.aspectRatio)

\* C17 as amended: for every non-empty prompt and every aspect ratio, with
\* no reference images, the optimizer returns a non-empty string; when the
\* provider threw or answered without usable text the string is the fallback
\* and contains the selected aspect ratio string; when the provider answered
\* with text the string is that text, unchanged.
C17_OptimizedPromptIsTextOrFallbackWithRatio ==
  OptimizedWithoutImages =>
    /\ result.success = TRUE
    /\ result.optimizedPrompt # <<>>
    /\ IF replies[1].kind = "ok" /\ FinalText(replies[1]) # <<>>
       THEN result.optimizedPrompt = FinalText(replies[1])
       ELSE HasToken(result.optimizedPrompt, input.aspectRatio)

\* for the ratio 1:1 the provider answered without text and the fallback
\* carrying the ratio was returned
C17_Witness ==
  /\ OptimizedWithoutImages
  /\ input.aspectRatio = "1:1"
  /\ replies[1].kind = "ok"
  /\ FinalText(replies[1]) = <<>>
  /\ HasToken(result.optimizedPrompt, "1:1")

\* C18: the aspect ratio is threaded unchanged through one chain of work of
\* the page.  The ratio sent with a generate call is the ratio that was sent
\* with the optimize call that produced its prompt; the history entry of the
\* displayed thumbnail records that ratio; and every edit call on the
\* thumbnail sends it.
C18_RatioThreadedThroughChain ==
  /\ \A r \in requests :
       r.handler \in {"handleGenerate", "handleEdit"} =>
         r.input.aspectRatio = optimizedWith
  /\ (Truthy(generatedThumbnail) /\ generationHistory # <<>>) =>
       generationHistory[Len(generationHistory)].aspectRatio = optimizedWith

\* the consistency sentences of the batch flow
BatchConsistencySentences ==
  {ConsistencyInstruction([consistencyMode |-> m, characterReference |-> ImageA,
                           styleReference |-> ImageA])[2] :
     m \in {"character", "style", "theme"}}

\* the batch part of C19, over the calls issued so far
C19_BatchReferences ==
  action = "batchGenerateAction" =>
    \A k \in 1..Len(calls) :
      LET attach ==
            \/ /\ input.consistencyMode = "character"
               /\ Truthy(input.characterReference)
            \/ /\ input.consistencyMode = "style"
               /\ Truthy(input.styleReference)
      IN  /\ Len(calls[k].images) <= 1
          /\ Len(calls[k].images) = 1 <=> attach
          /\ input.consistencyMode = "none" =>
               /\ calls[k].images = <<>>
               /\ \A s \in BatchConsistencySentences :
                    ~HasToken(calls[k].text, s)

\* the page part of C19, over the step in which handleGenerate calls its
\* action
C19_PageReferences ==
  \A r \in requests' \ requests :
    (r.handler = "handleGenerate" /\ consistencyMode = "none") =>
      /\ r.input.prompt = optimizedPrompt
      /\ r.input.image1 = At(uploadedImages, 1)

\* C19: the consistency mode alone decides the consistency sentence and the
\* reference attachment.  With mode 'none' no consistency sentence is
\* appended to the prompt and no style or character reference is attached,
\* in the page's generate handler (also when a style reference was selected
\* earlier) and in the batch flow; the batch flow attaches a reference image
\* exactly when the mode is 'character' with a characterReference or 'style'
\* with a styleReference, and never more than one.
C19_ModeDecidesSentenceAndReference ==
  []C19_BatchReferences /\ [][C19_PageReferences]_vars

\* the handlers resumed by this step with a failure result
Failed(handler, title) ==
  {r \in Resumed(handler) : toast'.title = title}

\* C20: after a failed request the user can repeat the same action without
\* re-entering input.  A failed optimize leaves the prompt, the aspect ratio
\* and the uploaded images unchanged, and the prompt and ratio are still the
\* ones sent; a failed generate leaves the optimized prompt, the aspect
\* ratio, the uploaded images and the style reference unchanged, and the
\* optimized prompt and ratio are still the ones used; a failed edit leaves
\* the thumbnail and the edit prompt unchanged, and they are still the ones
\* sent; and in each case the busy flag is cleared and the button of the
\* action can be clicked again.
C20_FailedRequestCanBeRepeated ==
  [][/\ \A r \in Failed("handleOptimizePrompt", "Optimization Failed") :
          /\ UNCHANGED <<prompt, aspectRatio, uploadedImages>>
          /\ prompt' = r.input.prompt
          /\ aspectRatio' = r.input.aspectRatio
          /\ ~isOptimizing'
          /\ OptimizeEnabled'
     /\ \A r \in Failed("handleGenerate", "Generation Failed") :
          /\ UNCHANGED <<optimizedPrompt, aspectRatio, uploadedImages,
                         selectedStyleReference>>
          /\ optimizedPrompt' = r.closure.optimizedPrompt
          /\ aspectRatio' = r.closure.aspectRatio
          /\ ~isLoading'
          /\ GenerateEnabled' \/ VariationEnabled'
     /\ \A r \in Failed("handleEdit", "Edit Failed") :
          /\ UNCHANGED <<generatedThumbnail, editPrompt>>
          /\ generatedThumbnail' = r.input.baseImage
          /\ editPrompt' = r.input.prompt
          /\ ~isEditing'
          /\ RefineEnabled'
    ]_vars

\* the actions without a fallback that return one result per request
FatalOnEmptyActions ==
  {"generateThumbnailAction", "editThumbnailAction", "intelligentFusionAction"}

\* the k-th provider call of the invocation returned without a payload: no
\* image from an image call, no text from a text call
EmptyResult(k) ==
  /\ replies[k].kind = "ok"
  /\ IF calls[k].model = ImageModel THEN NoImage(replies[k])
     ELSE replies[k].text = <<>>

\* the invocation stops at call k and returns a failure with a message
FailsAt(k) ==
  /\ Len(calls) = k
  /\ pc = "done" => /\ result.success = FALSE
                    /\ "error" \in DOMAIN result
                    /\ result.error # ""

\* C21 as stated: in the generator, the editor and the fusion flow, a provider
\* call that returns an empty result (no image from an image call, no text
\* from fusion's analysis call) makes the request fail with an error, and no
\* later provider call of the request is issued.
C21_EmptyResultIsFatal ==
  action \in FatalOnEmptyActions
  => \A k \in 1..Len(replies) :
       (Settled(k) /\ EmptyResult(k)) => FailsAt(k)

\* C21: in the generator, the editor and the fusion flow, an image call
\* that returns no image makes the request fail with an error and is the
\* request's last provider call; an analysis call of the fusion flow that
\* returns empty text does not fail the request: the image call is still
\* issued, and the request succeeds exactly when that call gives an image.
C21_NoImageIsFatal ==
  action \in FatalOnEmptyActions
  => /\ \A k \in 1..Len(replies) :
          (Settled(k) /\ calls[k].model = ImageModel /\ EmptyResult(k))
          => FailsAt(k)
     /\ (/\ action = "intelligentFusionAction"
         /\ pc = "done"
         /\ Len(replies) >= 1
         /\ EmptyResult(1))
        => /\ Len(calls) = 2
           /\ calls[2] = FusionImageCall(input, replies[1])
           /\ result.success = GaveImage(replies[2])

\* a fusion whose analysis came back empty went on to its image call, which
\* gave no image, and failed there
C21_Witness ==
  /\ Returned("intelligentFusionAction")
  /\ Len(calls) = 2
  /\ EmptyResult(1)
  /\ EmptyResult(2)
  /\ result.success = FALSE

\* the edit requests whose result the step writes to the displayed thumbnail
EditsWritten == Resumed("handleEdit") \ Failed("handleEdit", "Edit Failed")

\* C22: every edit request carries as base image the thumbnail displayed
\* when it was issued, and whenever an edit result is written to the
\* displayed thumbnail, the thumbnail it replaces is that same base image,
\* for every interleaving of edit and generate requests and their responses.
C22_EditsBuildOnLatestImage ==
  [][/\ \A r \in requests' \ requests :
          r.handler = "handleEdit" => r.input.baseImage = generatedThumbnail
     /\ \A r \in EditsWritten :
          generatedThumbnail = r.input.baseImage]_vars

\* the first half of C22 alone: the base image of an edit request is the
\* thumbnail on display at the click
C22_BaseIsDisplayedThumbnail ==
  [][\A r \in requests' \ requests :
       r.handler = "handleEdit" => r.input.baseImage = generatedThumbnail]_vars

\* C23: for every prompts list the batch input schema accepts, the empty
\* list included, the flow returns a result whose consistency_score is a
\* well-defined number, equal to successes divided by requested count and
\* between 0 and 1, and batchGenerateAction returns it with success: true.
C23_BatchScoreIsWellDefined ==
  (/\ Returned("batchGenerateAction")
   /\ BatchGenerateInputSchema(input))
  => /\ flowOutcome.kind = "return"
     /\ result.success = TRUE
     /\ result.consistency_score =
          Divide(Len(result.thumbnails), Len(input.prompts))
     /\ ~IsNaN(result.consistency_score)
     /\ result.consistency_score.den > 0
     /\ 0 <= result.consistency_score.num
     /\ result.consistency_score.num <= result.consistency_score.den

\* the image slots of a generate request, in order
Slots(in) == <<in.image1, in.image2, in.image3>>

\* C24: a generate request issued by handleGenerate with a style reference
\* selected carries the style reference in slot 1 and the second and third
\* uploaded images in slots 2 and 3, so the first uploaded image has no
\* slot; with no style reference selected its slots are the first three
\* uploaded images in upload order; the generator call carries the filled
\* slots in slot order and never more than 3 images.
C24_GenerateImageSlots ==
  [][\A r \in requests' \ requests :
       r.handler = "handleGenerate"
       => /\ IF selectedStyleReference # ""
             THEN /\ Slots(r.input) =
                       <<selectedStyleReference, At(uploadedImages, 2),
                         At(uploadedImages, 3)>>
                  /\ (/\ uploadedImages # <<>>
                      /\ \A k \in 2..Len(uploadedImages) :
                           uploadedImages[k] # uploadedImages[1])
                     => \A k \in 1..3 : Slots(r.input)[k] # uploadedImages[1]
             ELSE Slots(r.input) =
                    [k \in 1..3 |-> At(uploadedImages, k)]
          /\ \A c \in {r.calls[k] : k \in 1..Len(r.calls)} :
               /\ c.images = FilterTruthy(Slots(r.input))
               /\ Len(c.images) <= 3]_vars

\* a generate request is in flight that carries the style reference in
\* slot 1 and the second of two uploaded images in slot 2
C24_Witness ==
  \E r \in requests :
    /\ r.handler = "handleGenerate"
    /\ selectedStyleReference # ""
    /\ Len(uploadedImages) = 2
    /\ Slots(r.input) =
         <<selectedStyleReference, uploadedImages[2], Undefined>>
    /\ uploadedImages[1] # selectedStyleReference
    /\ Len(r.calls) = 1
    /\ Len(r.calls[1].images) = 2

\* the requests the step issues from the given handler
Issued(handler) == {r \in requests' \ requests : r.handler = handler}

\* the optimize requests resumed by this step with a success result
OptimizesSucceeded ==
  Resumed("handleOptimizePrompt")
    \ Failed("handleOptimizePrompt", "Optimization Failed")

\* C25: in the page a generate request is issued only in a state where the
\* optimized prompt is non-empty and an optimize has succeeded before; the
\* optimized prompt becomes non-empty only in a step in which an optimize
\* returns successfully, and is then its result; starting an optimize clears
\* it and a failed optimize leaves it empty; an edit request is issued only
\* with a thumbnail on display and after a successful generate, whose entry
\* is in the history.
C25_GenerateFollowsOptimize ==
  [][/\ Issued("handleGenerate") # {}
          => optimizedPrompt # <<>> /\ optimizedWith # Undefined
     /\ (optimizedPrompt = <<>> /\ optimizedPrompt' # <<>>)
          => \E r \in OptimizesSucceeded :
               optimizedPrompt' \in
                 {res.optimizedPrompt : res \in OptimizeResults(r)}
     /\ Issued("handleOptimizePrompt") # {} => optimizedPrompt' = <<>>
     /\ Failed("handleOptimizePrompt", "Optimization Failed") # {}
          => optimizedPrompt = <<>> /\ optimizedPrompt' = <<>>
     /\ Issued("handleEdit") # {}
          => /\ Truthy(generatedThumbnail)
             /\ generationHistory # <<>>
             /\ optimizedWith # Undefined]_vars

\* an edit request is in flight: an optimize and then a generate succeeded
\* before it
C25_Witness ==
  /\ \E r \in requests : r.handler = "handleEdit"
  /\ generationHistory # <<>>
  /\ generationHistory[1].prompt # <<>>
  /\ optimizedWith # Undefined
  /\ optimizedPrompt # <<>>

\* the busy flag each handler sets before its server action call
BusyFlagOf ==
  [handleOptimizePrompt |-> isOptimizing, handleGenerate |-> isLoading,
   handleEdit |-> isEditing]

\* C26: every request started in the page releases its busy flag.  A flag
\* is true exactly while its handler is suspended at its action call; the
\* step in which the action returns sets the flag to false, on the success
\* path and on the failure path; and, every action call returning, a page
\* that is disabled (one of the three flags is true) is enabled again
\* later, with all three flags false.
C26_BusyFlagIsReleased ==
  /\ [](\A h \in DOMAIN BusyFlagOf :
          BusyFlagOf[h] <=> (\E r \in requests : r.handler = h))
  /\ [][\A h \in DOMAIN BusyFlagOf : Resumed(h) # {} => ~BusyFlagOf[h]']_vars
  /\ allDisabled ~> ~allDisabled

\* a generate request has failed and its handler has cleared isLoading
C26_Witness ==
  /\ toast.title = "Generation Failed"
  /\ ~isLoading
  /\ requests = {}
  /\ invoked >= 2

====
